---------------------------- MODULE Spec2Model ----------------------------
(***************************************************************************)
(* Model of wordle-tool (the multi-board TypeScript program).              *)
(*                                                                         *)
(* A word is a sequence of one-character strings.  The program indexes     *)
(* positions from 0; the model indexes them from 1, so position i of the   *)
(* program is position i+1 here.                                           *)
(*                                                                         *)
(* Scores: the program computes baseScore * 1.1 + 1 in double precision.   *)
(* The model keeps every score multiplied by ten in exact integers, so     *)
(* rounding in the last bit of a double is not represented.                *)
(***************************************************************************)
EXTENDS Integers, Sequences, FiniteSets, TLC

VARIABLES
    \* ---- the session of gameModes[NORMAL].run
    allWords,      \* the dictionary, loadAllWords()
    solutions,     \* the trailing arguments (or the random words)
    hasSolutions,  \* simulation mode (TRUE) or feedback typed in (FALSE)
    hardMode,      \* --hard
    freeMode,      \* --free
    threadCount,   \* --threads
    roundCount,    \* --rounds
    threadKnown,   \* one Known per board
    threadWords,   \* one candidate list per board
    roundNumber,   \* rounds played so far
    lastReply,     \* what requestGuess returned in the latest round (empty when not asked)
    lastPool,      \* guessPool of the latest round (empty when the guess was typed)
    lastGuess,     \* guess of the latest round
    pc,            \* "start", "play" or "done"
    outcome,       \* "NONE", "UNKNOWN_WORD", "WON", "LOST", "CONTRADICTION"
    \* ---- the feedback evaluator on its own
    evalGuess, evalSolution, evalResult, evalPc,
    \* ---- the word ranker on its own
    rankWords,     \* threadWords: one candidate list per board
    rankPool,      \* guessPool
    rankLetters,   \* threadLetterScores: one letter table per board
    rankValues,    \* scoreWord of every pool word on every board
    rankTotals,    \* scoreWords of every pool word
    rankChoice,    \* the word chooseWord returns
    rankPc,
    \* ---- gameModes[TEST].run
    testWords,          \* allWords
    testHard,           \* --hard
    testIndex,          \* the place in allWords of the solution of the current game
    testKnown,          \* known
    testList,           \* words
    testRound,          \* iterations of range(10) done in the current game
    frequencyOfScores,  \* the tally
    testReport,         \* the table written by console.log
    testPc,             \* "yield" (awaiting the timer), "game", "done"
    \* ---- gameModes.normal.run of the earlier program for one board
    singleAllWords,     \* allWords
    singleSolution,     \* the word given as argument (empty when none is given)
    singleHardMode,     \* --hard
    singleFreeMode,     \* --free
    singleRoundCount,   \* --rounds
    singleKnown,        \* known
    singleWords,        \* words
    singleI,            \* i of range(Infinity)
    singlePc,           \* "start", "play" or "done"
    singleOutcome,      \* "NONE", "UNKNOWN_WORD", "WON", "CONTRADICTION"
    \* ---- the generator range, consumed by a for...of loop without a break
    rangeProgram,       \* the program variant the generator is taken from
    rangeN,             \* n
    rangeI,             \* i
    rangeYielded,       \* the values yielded so far, in order
    rangePc             \* "loop" (at the test i < n) or "done"

sessionVars == <<allWords, solutions, hasSolutions, hardMode, freeMode, threadCount,
                 roundCount, threadKnown, threadWords, roundNumber, lastReply,
                 lastPool, lastGuess, pc, outcome>>
evalVars == <<evalGuess, evalSolution, evalResult, evalPc>>
rankVars == <<rankWords, rankPool, rankLetters, rankValues, rankTotals, rankChoice, rankPc>>
testVars == <<testWords, testHard, testIndex, testKnown, testList, testRound,
              frequencyOfScores, testReport, testPc>>
singleVars == <<singleAllWords, singleSolution, singleHardMode, singleFreeMode,
                singleRoundCount, singleKnown, singleWords, singleI, singlePc,
                singleOutcome>>
rangeVars == <<rangeProgram, rangeN, rangeI, rangeYielded, rangePc>>
vars == <<sessionVars, evalVars, rankVars, testVars, singleVars, rangeVars>>

-----------------------------------------------------------------------------
(* Bounds of the model *)

\* boards of a session
MaxThreads == 2
\* round budget of a session
MaxRounds == 3
\* round budget of a session whose feedback is typed in
MaxTypedRounds == 2

\* boards of a session over the longest dictionary
MaxLongThreads == 1

\* iterations of the round loop of the earlier program for one board
MaxSingleRounds == 3

\* the largest n given to range
MaxRangeLength == 10

\* values a range is followed for
MaxYields == 12

(* Program constants *)

WordLength == 5
TableSlots == 4
\* range(10) of a simulated game
TestRounds == 10

Positions == 1..WordLength

\* the wildcard of the fixed pattern, "."
Wildcard == "."

\* what indexing a string past its end gives in the program
Undefined == "undefined"

LetterResult == {"PERFECT", "CLOSE", "WRONG"}

-----------------------------------------------------------------------------
(* Records keyed by letters: a function whose domain is the set of keys *)

EmptyRecord == [k \in {} |-> 0]

Get(rec, key, default) == IF key \in DOMAIN rec THEN rec[key] ELSE default

\* rec[key] = value
Put(rec, key, value) == (key :> value) @@ rec

\* a sequence given as a function on 1..n, as the tuple it is
AsList(list) == SubSeq(list, 1, Len(list))

\* a record given as a function on its keys, as the record it is
AsRecord(rec) == rec @@ EmptyRecord

\* string[i]
At(word, i) == IF i \in DOMAIN word THEN word[i] ELSE Undefined

Max(a, b) == IF a > b THEN a ELSE b

-----------------------------------------------------------------------------
(* countOccurrences and countLetters *)

Range(list) == {list[k] : k \in 1..Len(list)}

\* the number of matches of the one-letter pattern in the string
countOccurrences(string, character) ==
    Cardinality({i \in 1..Len(string) : string[i] = character})

\* counts[letter] is incremented once for every position that holds the letter
countLetters(word) ==
    [letter \in Range(word) |-> Cardinality({i \in 1..Len(word) : word[i] = letter})]

-----------------------------------------------------------------------------
(* makeGuess: the feedback evaluator *)

\* variant of the first loop that counts every letter of the solution, matched
\* in place or not
LetterOccurrencesAll(guess, solution) ==
    [letter \in {At(solution, i) : i \in Positions} |->
        Cardinality({i \in Positions : At(solution, i) = letter})]

\* the positions where the guess does not hold the solution's letter
Unmatched(guess, solution) == {i \in Positions : At(guess, i) # At(solution, i)}

\* first loop: letterOccurrences[solution[i]] is incremented once for every
\* position i where the guess does not hold the solution's letter
LetterOccurrences(guess, solution) ==
    [letter \in {At(solution, i) : i \in Unmatched(guess, solution)} |->
        Cardinality({i \in Unmatched(guess, solution) : At(solution, i) = letter})]

\* variant of the second loop that never decrements the counter
RECURSIVE ClassifyNoDecrement(_, _, _, _, _)
ClassifyNoDecrement(guess, solution, i, occ, result) ==
    IF i > WordLength THEN result
    ELSE LET nextLetter == At(guess, i)
         IN  ClassifyNoDecrement(guess, solution, i + 1, occ,
                 Append(result,
                        IF nextLetter = At(solution, i) THEN "PERFECT"
                        ELSE IF Get(occ, nextLetter, 0) # 0 THEN "CLOSE"
                        ELSE "WRONG"))

\* second loop, left to right
RECURSIVE ClassifyFrom(_, _, _, _, _)
ClassifyFrom(guess, solution, i, occ, result) ==
    IF i > WordLength THEN result
    ELSE LET nextLetter == At(guess, i)
         IN  IF nextLetter = At(solution, i)
             THEN ClassifyFrom(guess, solution, i + 1, occ, Append(result, "PERFECT"))
             ELSE IF Get(occ, nextLetter, 0) # 0
             THEN ClassifyFrom(guess, solution, i + 1,
                               Put(occ, nextLetter, occ[nextLetter] - 1),
                               Append(result, "CLOSE"))
             ELSE ClassifyFrom(guess, solution, i + 1, occ, Append(result, "WRONG"))

Reverse(list) == [i \in 1..Len(list) |-> list[Len(list) + 1 - i]]

\* variant that runs the second loop from the last position to the first
makeGuessRightToLeft(guess, solution) ==
    Reverse(ClassifyFrom(Reverse(guess), Reverse(solution), 1,
                         LetterOccurrences(guess, solution), <<>>))

makeGuess(guess, solution) ==
    ClassifyFrom(guess, solution, 1, LetterOccurrences(guess, solution), <<>>)


-----------------------------------------------------------------------------
(* scoreLetters: the letter scorer *)

\* letters[letter][i] is incremented once for every word with i < occurrences;
\* slot s of the model is index s-1 of the program
RawLetters(words) ==
    [letter \in UNION {Range(words[k]) : k \in 1..Len(words)} |->
        [s \in 1..TableSlots |->
            Cardinality({k \in 1..Len(words) :
                            s - 1 < countOccurrences(words[k], letter)})]]

\* variant that leaves out the fold of the counts above half of the words
scoreLettersUnfolded(words) ==
    AsRecord([letter \in DOMAIN RawLetters(words) |-> AsList(RawLetters(words)[letter])])

scoreLetters(words) ==
    LET effectiveCount == Len(words)
        letters == RawLetters(words)
    IN  AsRecord([letter \in DOMAIN letters |->
            AsList([s \in 1..TableSlots |->
                LET score == letters[letter][s]
                IN  IF 2 * score > effectiveCount
                    THEN effectiveCount - score
                    ELSE score])])

-----------------------------------------------------------------------------
(* scoreWord, scoreWords, chooseWord: the word ranker (scores times ten) *)

InList(words, word) == \E k \in 1..Len(words) : words[k] = word

\* variant that reads the last slot of the table for a count beyond it
LetterScoreClamped(letters, letter, count) ==
    IF letter \in DOMAIN letters
    THEN letters[letter][IF count > TableSlots THEN TableSlots ELSE count]
    ELSE 0

\* letters[letter]?.[count - 1] ?? 0
LetterScore(letters, letter, count) ==
    IF letter \in DOMAIN letters /\ count \in DOMAIN letters[letter]
    THEN letters[letter][count]
    ELSE 0

RECURSIVE BaseScoreFrom(_, _, _)
BaseScoreFrom(word, letters, i) ==
    IF i > Len(word) THEN 0
    ELSE (IF \E j \in 1..(i - 1) : word[j] = word[i]
          THEN 0
          ELSE LetterScore(letters, word[i], countLetters(word)[word[i]]))
         + BaseScoreFrom(word, letters, i + 1)

\* variant that multiplies by 1.1 and leaves out the + 1
scoreWordNoBonus(word, letters, validWords) ==
    IF ~InList(validWords, word) THEN 10 * BaseScoreFrom(word, letters, 1)
    ELSE 11 * BaseScoreFrom(word, letters, 1)

scoreWord(word, letters, validWords) ==
    LET baseScore == BaseScoreFrom(word, letters, 1)
    IN  IF ~InList(validWords, word) THEN 10 * baseScore
        ELSE 11 * baseScore + 10

\* variant that scores the word on every board with the table of the first board
RECURSIVE SumScoresFirstTable(_, _, _, _)
SumScoresFirstTable(word, threadLetterScores, words, i) ==
    IF i > Len(words) THEN 0
    ELSE scoreWord(word, threadLetterScores[1], words[i])
         + SumScoresFirstTable(word, threadLetterScores, words, i + 1)

RECURSIVE SumScoresFrom(_, _, _, _)
SumScoresFrom(word, threadLetterScores, words, i) ==
    IF i > Len(words) THEN 0
    ELSE scoreWord(word, threadLetterScores[i], words[i])
         + SumScoresFrom(word, threadLetterScores, words, i + 1)

scoreWords(word, threadLetterScores, words) ==
    SumScoresFrom(word, threadLetterScores, words, 1)

\* variant of the reduce that keeps the current best when the next word scores
\* the same
RECURSIVE ReduceBestKeepsTies(_, _, _, _, _)
ReduceBestKeepsTies(guessPool, k, best, threadLetterScores, words) ==
    IF k > Len(guessPool) THEN best
    ELSE LET next == guessPool[k]
         IN  IF scoreWords(best, threadLetterScores, words)
                    >= scoreWords(next, threadLetterScores, words)
             THEN ReduceBestKeepsTies(guessPool, k + 1, best, threadLetterScores, words)
             ELSE ReduceBestKeepsTies(guessPool, k + 1, next, threadLetterScores, words)

\* guessPool.reduce((best, next) => ...) with no initial value
RECURSIVE ReduceBest(_, _, _, _, _)
ReduceBest(guessPool, k, best, threadLetterScores, words) ==
    IF k > Len(guessPool) THEN best
    ELSE LET next == guessPool[k]
         IN  IF scoreWords(best, threadLetterScores, words)
                    > scoreWords(next, threadLetterScores, words)
             THEN ReduceBest(guessPool, k + 1, best, threadLetterScores, words)
             ELSE ReduceBest(guessPool, k + 1, next, threadLetterScores, words)

chooseWord(words, guessPool) ==
    LET threadLetterScores == AsList([i \in 1..Len(words) |-> scoreLetters(words[i])])
    IN  ReduceBest(guessPool, 2, guessPool[1], threadLetterScores, words)

\* threadWords.flat()
RECURSIVE FlatFrom(_, _)
FlatFrom(lists, i) ==
    IF i > Len(lists) THEN <<>> ELSE lists[i] \o FlatFrom(lists, i + 1)

Flat(lists) == FlatFrom(lists, 1)

-----------------------------------------------------------------------------
(* Known, nothingKnown, updateKnown: the constraint tracker *)

nothingKnown ==
    [fixed |-> [i \in Positions |-> Wildcard],
     good |-> EmptyRecord,
     bad |-> EmptyRecord,
     badPositions |-> EmptyRecord,
     guessResult |-> <<>>,
     solved |-> FALSE]

\* the square drawn for a result
Square(letterResult) ==
    CASE letterResult = "PERFECT" -> "green"
      [] letterResult = "CLOSE" -> "yellow"
      [] letterResult = "WRONG" -> "red"

\* the loop over response.entries(), one definition per thing it builds

\* variant of knownFixed that writes the wildcard where the result is not PERFECT
KnownFixedReset(guess, response, oldFixed) ==
    AsList([i \in 1..Len(response) |->
        IF response[i] = "PERFECT" THEN At(guess, i) ELSE Wildcard])

\* knownFixed: the guessed letter where the result is PERFECT, the old character
\* elsewhere
KnownFixed(guess, response, oldFixed) ==
    AsList([i \in 1..Len(response) |->
        IF response[i] = "PERFECT" THEN At(guess, i) ELSE At(oldFixed, i)])

\* newGood: one more for every PERFECT or CLOSE position that holds the letter
Credited(guess, response) ==
    {i \in 1..Len(response) : response[i] \in {"PERFECT", "CLOSE"}}

NewGood(guess, response) ==
    [letter \in {At(guess, i) : i \in Credited(guess, response)} |->
        Cardinality({i \in Credited(guess, response) : At(guess, i) = letter})]

\* newBad: the letters of the WRONG positions
NewBad(guess, response) ==
    {At(guess, i) : i \in {p \in 1..Len(response) : response[p] = "WRONG"}}

\* badPositions: the CLOSE positions of a letter, added to the ones it had
BadPositions(guess, response, oldBadPositions) ==
    LET close == {i \in 1..Len(response) : response[i] = "CLOSE"}
    IN  [letter \in DOMAIN oldBadPositions \cup {At(guess, i) : i \in close} |->
            Get(oldBadPositions, letter, {}) \cup {i \in close : At(guess, i) = letter}]

\* the line added to guessResult: the squares, a space, the guess, a newline
GuessLine(guess, response) ==
    [squares |-> AsList([i \in 1..Len(response) |-> Square(response[i])]),
     word |-> guess]

\* variant of goodLetters that adds the new count to the old one
GoodLettersSummed(oldGood, newGood) ==
    [letter \in DOMAIN oldGood \cup DOMAIN newGood |->
        Get(oldGood, letter, 0) + Get(newGood, letter, 0)]

\* goodLetters: the larger of the old and the new count, for every letter of either
GoodLetters(oldGood, newGood) ==
    [letter \in DOMAIN oldGood \cup DOMAIN newGood |->
        Max(Get(oldGood, letter, 0), Get(newGood, letter, 0))]

\* variant of badLetters that recomputes the bound of every letter that has one
BadLettersRecomputed(oldBad, newBad, goodLetters) ==
    [letter \in DOMAIN oldBad \cup newBad |-> Get(goodLetters, letter, 0) + 1]

\* variant of badLetters that forgets the old bounds
BadLettersOnlyNew(oldBad, newBad, goodLetters) ==
    [letter \in newBad |-> Get(goodLetters, letter, 0) + 1]

\* badLetters: {...oldBad, ...newBad with goodLetters[letter] + 1}
BadLetters(oldBad, newBad, goodLetters) ==
    [letter \in DOMAIN oldBad \cup newBad |->
        IF letter \in newBad THEN Get(goodLetters, letter, 0) + 1 ELSE oldBad[letter]]

updateKnown(guess, response, known) ==
    LET newGood == NewGood(guess, response)
        newBad == NewBad(guess, response)
        goodLetters == GoodLetters(known.good, newGood)
    IN  [fixed |-> KnownFixed(guess, response, known.fixed),
         good |-> goodLetters,
         bad |-> BadLetters(known.bad, newBad, goodLetters),
         badPositions |-> BadPositions(guess, response, known.badPositions),
         guessResult |-> Append(known.guessResult, GuessLine(guess, response)),
         solved |-> \A p \in 1..Len(response) : response[p] = "PERFECT"]

-----------------------------------------------------------------------------
(* filterWords: the candidate filter *)

\* new RegExp(known.fixed).test(word): the pattern may match anywhere in the word
RegexTest(pattern, word) ==
    \E offset \in 0..(Len(word) - Len(pattern)) :
        \A k \in 1..Len(pattern) :
            pattern[k] = Wildcard \/ pattern[k] = word[offset + k]

\* variant of the good test that asks for more than the minimum
GoodHoldsStrict(word, good) ==
    \A letter \in DOMAIN good : countOccurrences(word, letter) > good[letter]

GoodHolds(word, good) ==
    \A letter \in DOMAIN good : countOccurrences(word, letter) >= good[letter]

\* variant of the bad test that admits the bound itself
BadHoldsInclusive(word, bad) ==
    \A letter \in DOMAIN bad : countOccurrences(word, letter) <= bad[letter]

BadHolds(word, bad) ==
    \A letter \in DOMAIN bad : countOccurrences(word, letter) < bad[letter]

\* variant that reads the recorded position one place to the right
BadPositionsShifted(word, badPositions) ==
    \A letter \in DOMAIN badPositions :
        \A position \in badPositions[letter] : At(word, position + 1) # letter

BadPositionsHold(word, badPositions) ==
    \A letter \in DOMAIN badPositions :
        \A position \in badPositions[letter] : At(word, position) # letter

Keeps(word, known) ==
    /\ RegexTest(known.fixed, word)
    /\ GoodHolds(word, known.good)
    /\ BadHolds(word, known.bad)
    /\ BadPositionsHold(word, known.badPositions)

\* variant whose regex carries the g flag: after a match its lastIndex stays at
\* the end of the word, so the test of the next word fails and resets it
RECURSIVE FilterGlobalFrom(_, _, _, _)
FilterGlobalFrom(words, known, i, lastIndex) ==
    IF i > Len(words) THEN <<>>
    ELSE LET matches == lastIndex = 0 /\ RegexTest(known.fixed, words[i])
         IN  (IF matches /\ Keeps(words[i], known) THEN <<words[i]>> ELSE <<>>)
             \o FilterGlobalFrom(words, known, i + 1, IF matches THEN WordLength ELSE 0)

filterWordsGlobalRegex(words, known) == FilterGlobalFrom(words, known, 1, 0)

\* words.filter(...)
filterWords(words, known) == SelectSeq(words, LAMBDA word : Keeps(word, known))


-----------------------------------------------------------------------------
(* The inputs of a session *)

\* a word list in which a guess can leave several words
LongDictionary ==
    << <<"c", "r", "a", "n", "e">>,
       <<"s", "l", "a", "t", "e">>,
       <<"s", "h", "i", "n", "e">>,
       <<"s", "p", "i", "n", "e">>,
       <<"s", "w", "i", "n", "e">> >>

\* the word lists offered as words.json
Dictionaries ==
    { << <<"t", "e", "a", "s", "e">>,
         <<"s", "l", "a", "t", "e">>,
         <<"s", "t", "e", "a", "l">>,
         <<"e", "a", "s", "e", "l">> >>,
      LongDictionary,
      << <<"t", "e", "a", "s", "e">>,
         <<"s", "l", "a", "t", "e">> >> }

\* the word lists used when the feedback is typed in: every one of the 243
\* replies is offered in every round, so these sessions are kept small
TypedDictionaries == {words \in Dictionaries : Len(words) <= 2}

\* a five-letter word that is in no dictionary
UnknownWord == <<"s", "t", "a", "l", "e">>

\* what requestResult accepts: five digits, each 0, 1 or 2
Responses == [Positions -> LetterResult]

\* what requestGuess returns: a dictionary word, or the empty reply
Replies(words) == Range(words) \cup {<<>>}

NoResponse == <<>>

Threads == 1..threadCount

-----------------------------------------------------------------------------
(* gameModes[NORMAL].run *)

EvalIdle ==
    /\ evalGuess = <<>>
    /\ evalSolution = <<>>
    /\ evalResult = <<>>
    /\ evalPc = "off"

RankIdle ==
    /\ rankWords = <<>>
    /\ rankPool = <<>>
    /\ rankLetters = <<>>
    /\ rankValues = <<>>
    /\ rankTotals = <<>>
    /\ rankChoice = <<>>
    /\ rankPc = "off"

TestIdle ==
    /\ testWords = <<>>
    /\ testHard = FALSE
    /\ testIndex = 0
    /\ testKnown = nothingKnown
    /\ testList = <<>>
    /\ testRound = 0
    /\ frequencyOfScores = EmptyRecord
    /\ testReport = EmptyRecord
    /\ testPc = "off"

RangeIdle ==
    /\ rangeProgram = "none"
    /\ rangeN = 0
    /\ rangeI = 0
    /\ rangeYielded = <<>>
    /\ rangePc = "off"

SingleIdle ==
    /\ singleAllWords = <<>>
    /\ singleSolution = <<>>
    /\ singleHardMode = FALSE
    /\ singleFreeMode = FALSE
    /\ singleRoundCount = 0
    /\ singleKnown = <<>>
    /\ singleWords = <<>>
    /\ singleI = 0
    /\ singlePc = "off"
    /\ singleOutcome = "NONE"

SessionIdle ==
    /\ allWords = <<>>
    /\ solutions = <<>>
    /\ hasSolutions = FALSE
    /\ hardMode = FALSE
    /\ freeMode = FALSE
    /\ threadCount = 0
    /\ roundCount = 0
    /\ threadKnown = <<>>
    /\ threadWords = <<>>
    /\ roundNumber = 0
    /\ lastReply = <<>>
    /\ lastPool = <<>>
    /\ lastGuess = <<>>
    /\ pc = "off"
    /\ outcome = "NONE"

\* rawRoundCount ?? 5 + threadCount, when --rounds is not given
DefaultRounds(threads) == 5 + threads

\* the budgets of the sessions that pick every guess themselves from computed
\* results: these have one behaviour each, so the default budgets of up to
\* threadCount boards are played too
LongBudgets(threads) == {DefaultRounds(t) : t \in 1..threads}

Init ==
    /\ allWords \in Dictionaries
    /\ threadCount \in 1..MaxThreads
    /\ roundCount \in (1..MaxRounds) \cup LongBudgets(threadCount)
    /\ hardMode \in BOOLEAN
    /\ freeMode \in BOOLEAN
    /\ hasSolutions \in BOOLEAN
    \* feedback typed in is modelled for one board, a short list and few rounds
    /\ hasSolutions \/ (/\ threadCount = 1
                         /\ allWords \in TypedDictionaries
                         /\ roundCount <= MaxTypedRounds)
    \* the longest dictionary and the default budgets are modelled for few
    \* boards, or for sessions that type nothing
    /\ \/ hasSolutions /\ ~freeMode
       \/ /\ roundCount <= MaxRounds
          /\ allWords # LongDictionary \/ threadCount <= MaxLongThreads
    /\ solutions \in IF hasSolutions
                     THEN [Threads -> Range(allWords) \cup {UnknownWord}]
                     ELSE {<<>>}
    /\ threadKnown = <<>>
    /\ threadWords = <<>>
    /\ roundNumber = 0
    /\ lastReply = <<>>
    /\ lastPool = <<>>
    /\ lastGuess = <<>>
    /\ pc = "start"
    /\ outcome = "NONE"
    /\ EvalIdle
    /\ RankIdle
    /\ TestIdle
    /\ SingleIdle
    /\ RangeIdle

\* variant that looks up the first solution only
SolutionsKnownFirstOnly(sols, words) ==
    Len(sols) = 0 \/ sols[1] = <<>> \/ InList(words, sols[1])

\* every solution given is a dictionary word
SolutionsKnown(sols, words) ==
    \A i \in 1..Len(sols) : sols[i] = <<>> \/ InList(words, sols[i])

\* up to the round loop: the unknown-word exit, then one Known and one word list
\* per board
Start ==
    /\ pc = "start"
    /\ IF ~SolutionsKnown(solutions, allWords)
       THEN /\ pc' = "done"
            /\ outcome' = "UNKNOWN_WORD"
            /\ UNCHANGED <<threadKnown, threadWords>>
       ELSE /\ pc' = "play"
            /\ outcome' = "NONE"
            /\ threadKnown' = [i \in Threads |-> nothingKnown]
            /\ threadWords' = [i \in Threads |-> allWords]
    /\ UNCHANGED <<allWords, solutions, hasSolutions, hardMode, freeMode, threadCount,
                   roundCount, roundNumber, lastReply, lastPool, lastGuess, evalVars,
                   rankVars, testVars, singleVars, rangeVars>>

AllSolved(known) == \A i \in 1..Len(known) : known[i].solved

\* threadKnown.filter((known) => !known.solved).length
WordsToGuess(known) == Cardinality({i \in 1..Len(known) : ~known[i].solved})

\* variant of the pool that narrows only when --hard is given
GuessPoolHardOnly(hard, round, rounds, known, words, dictionary) ==
    IF hard THEN Flat(words) ELSE dictionary

\* the pool the ranker chooses from
GuessPool(hard, round, rounds, known, words, dictionary) ==
    IF hard \/ round >= rounds - WordsToGuess(known) THEN Flat(words) ELSE dictionary

\* variant that takes a typed word only when some board still lists it
RoundGuessCandidatesOnly(reply, words, pool) ==
    IF reply # <<>> /\ InList(Flat(words), reply) THEN reply
    ELSE chooseWord(words, IF pool = <<>> THEN Flat(words) ELSE pool)

\* the guess of the round: the reply typed in free mode, else the ranker's word
RoundGuess(reply, words, pool) ==
    IF reply # <<>> THEN reply ELSE chooseWord(words, pool)

\* variant in which every board but the first is updated with the word the
\* ranker picks from that board's own list
NewKnownOwnGuess(guess, responses, known) ==
    AsList([i \in 1..Len(known) |->
        IF known[i].solved THEN known[i]
        ELSE updateKnown(IF i = 1 THEN guess
                         ELSE chooseWord(<<threadWords[i]>>, threadWords[i]),
                         responses[i], known[i])])

\* mapAsyncSequentially(threadKnown, ...): a solved board keeps its Known, every
\* other board is updated with the one guess and its own response
NewKnown(guess, responses, known) ==
    AsList([i \in 1..Len(known) |->
        IF known[i].solved THEN known[i]
        ELSE updateKnown(guess, responses[i], known[i])])

\* variant that filters the list of a solved board like any other
RemainingWordsAllFiltered(words, newKnown) ==
    AsList([i \in 1..Len(words) |-> filterWords(words[i], newKnown[i])])

\* threadWords.map(...): nothing for a solved board, the filtered list otherwise
RemainingWords(words, newKnown) ==
    AsList([i \in 1..Len(words) |->
        IF newKnown[i].solved THEN <<>> ELSE filterWords(words[i], newKnown[i])])

\* variant that looks at the lists of the solved boards only
ContradictionOnSolved(remaining, newKnown) ==
    \E i \in 1..Len(remaining) : newKnown[i].solved /\ remaining[i] # <<>>

\* some board that is not solved has no word left
Contradiction(remaining, newKnown) ==
    \E i \in 1..Len(remaining) : ~newKnown[i].solved /\ remaining[i] = <<>>

\* after the loop: "Score" and exit 0, or "You lost" and exit 1
FinalOutcome(known) == IF AllSolved(known) THEN "WON" ELSE "LOST"

\* variant of the loop test that allows one round too many
LoopEndsLate(played, rounds) == played > rounds

\* the loop goes on while roundNumber < roundCount
LoopEnds(played, rounds) == ~(played < rounds)

\* the feedback of the round, per board: computed from the solution, or typed in
Feedback(guess, responses) ==
    AsList([i \in Threads |->
        IF hasSolutions THEN makeGuess(guess, solutions[i]) ELSE responses[i]])

\* the rest of the iteration once every board has its new Known: the loop is left
\* when all boards are solved, the process exits when a board has no word left,
\* and after the last round the loop ends
RoundEnd(newKnown, remaining) ==
    /\ threadKnown' = newKnown
    /\ roundNumber' = roundNumber + 1
    /\ IF AllSolved(newKnown)
       THEN /\ pc' = "done"
            /\ outcome' = FinalOutcome(newKnown)
            /\ UNCHANGED threadWords
       ELSE IF Contradiction(remaining, newKnown)
       THEN /\ pc' = "done"
            /\ outcome' = "CONTRADICTION"
            /\ UNCHANGED threadWords
       ELSE /\ threadWords' = remaining
            /\ IF LoopEnds(roundNumber + 1, roundCount)
               THEN /\ pc' = "done"
                    /\ outcome' = FinalOutcome(newKnown)
               ELSE /\ pc' = "play"
                    /\ outcome' = "NONE"

RoundUpdate(newKnown) == RoundEnd(newKnown, RemainingWords(threadWords, newKnown))

RoundApply(guess, responses) ==
    /\ lastGuess' = guess
    /\ RoundUpdate(NewKnown(guess, Feedback(guess, responses), threadKnown))

\* the pool is built only when no guess was typed
RoundChoose(reply, responses, pool) ==
    /\ lastReply' = reply
    /\ lastPool' = pool
    /\ RoundApply(RoundGuess(reply, threadWords, pool), responses)

\* one iteration of the round loop, and what follows the loop when it ends
Round ==
    /\ pc = "play"
    /\ \E reply \in IF freeMode THEN Replies(allWords) ELSE {<<>>} :
         \E responses \in [Threads -> IF hasSolutions THEN {NoResponse} ELSE Responses] :
            RoundChoose(reply, responses,
                        IF reply # <<>> THEN <<>>
                        ELSE GuessPool(hardMode, roundNumber, roundCount,
                                       threadKnown, threadWords, allWords))
    /\ UNCHANGED <<allWords, solutions, hasSolutions, hardMode, freeMode, threadCount,
                   roundCount, evalVars, rankVars, testVars, singleVars, rangeVars>>

Next == Start \/ Round

Spec == Init /\ [][Next]_vars


-----------------------------------------------------------------------------
(* The feedback evaluator on its own: every guess and every solution over a *)
(* three-letter alphabet                                                    *)

EvalLetters == {"a", "e", "s"}

EvalWords == [Positions -> EvalLetters]

InitEval ==
    /\ evalGuess \in EvalWords
    /\ evalSolution \in EvalWords
    /\ evalResult = <<>>
    /\ evalPc = "ready"
    /\ SessionIdle
    /\ RankIdle
    /\ TestIdle
    /\ SingleIdle
    /\ RangeIdle

Evaluate ==
    /\ evalPc = "ready"
    /\ evalResult' = makeGuess(evalGuess, evalSolution)
    /\ evalPc' = "done"
    /\ UNCHANGED <<evalGuess, evalSolution, sessionVars, rankVars, testVars, singleVars, rangeVars>>

NextEval == Evaluate

SpecEval == InitEval /\ [][NextEval]_vars

-----------------------------------------------------------------------------
(* The word ranker on its own: chooseWord on every choice of candidate lists *)
(* and guess pool taken from a four-word dictionary                         *)

RankDictionary ==
    << <<"e", "e", "e", "e", "e">>,
       <<"t", "e", "a", "s", "e">>,
       <<"s", "l", "a", "t", "e">>,
       <<"e", "a", "s", "e", "l">> >>

\* the words of a list at the given indexes, in the order of the list
RECURSIVE PickFrom(_, _, _)
PickFrom(list, indexes, i) ==
    IF i > Len(list) THEN <<>>
    ELSE (IF i \in indexes THEN <<list[i]>> ELSE <<>>) \o PickFrom(list, indexes, i + 1)

\* the lists a filter can leave of a list
SubLists(list) == {PickFrom(list, indexes, 1) : indexes \in SUBSET (1..Len(list))}

\* the word lists offered as words.json
RankDictionaries == SubLists(RankDictionary) \ {<<>>}

\* the pools chooseWord is given: the lists of the boards one after the other,
\* or the dictionary
RankPools(words, dictionary) == {Flat(words), dictionary}

\* the lists of the boards are what filters have left of the dictionary; a
\* solved board has the empty list, and some board is not solved
InitRank ==
    /\ \E boards \in 1..MaxThreads :
          \E dictionary \in RankDictionaries :
            /\ rankWords \in [1..boards -> SubLists(dictionary)]
            /\ rankPool \in RankPools(rankWords, dictionary)
    /\ \E i \in 1..Len(rankWords) : rankWords[i] # <<>>
    /\ rankLetters = <<>>
    /\ rankValues = <<>>
    /\ rankTotals = <<>>
    /\ rankChoice = <<>>
    /\ rankPc = "ready"
    /\ SessionIdle
    /\ EvalIdle
    /\ TestIdle
    /\ SingleIdle
    /\ RangeIdle

\* chooseWord, with the tables and the scores it computes on the way
RankScore(words, pool, threadLetterScores) ==
    /\ rankLetters' = threadLetterScores
    /\ rankValues' = AsList([k \in 1..Len(pool) |->
                        AsList([i \in 1..Len(words) |->
                            scoreWord(pool[k], threadLetterScores[i], words[i])])])
    /\ rankTotals' = AsList([k \in 1..Len(pool) |->
                        scoreWords(pool[k], threadLetterScores, words)])
    /\ rankChoice' = chooseWord(words, pool)

Rank ==
    /\ rankPc = "ready"
    /\ RankScore(rankWords, rankPool,
                 AsList([i \in 1..Len(rankWords) |-> scoreLetters(rankWords[i])]))
    /\ rankPc' = "done"
    /\ UNCHANGED <<rankWords, rankPool, sessionVars, evalVars, testVars, singleVars, rangeVars>>

NextRank == Rank

SpecRank == InitRank /\ [][NextRank]_vars

-----------------------------------------------------------------------------
(* gameModes[TEST].run: one simulated game per dictionary word, raced against *)
(* the first SIGINT                                                          *)

\* a word list in which one guess leaves a single open position and a word
\* outside the candidates carries the letter of that position
RhymeDictionary ==
    << <<"l", "i", "g", "h", "t">>,
       <<"m", "i", "g", "h", "t">>,
       <<"n", "i", "g", "h", "t">>,
       <<"f", "i", "g", "h", "t">>,
       <<"f", "o", "r", "m", "s">>,
       <<"f", "i", "r", "m", "s">>,
       <<"l", "i", "m", "n", "s">> >>

TestDictionaries == Dictionaries \cup RankDictionaries \cup {RhymeDictionary}

InitTest ==
    /\ testWords \in TestDictionaries
    /\ testHard \in BOOLEAN
    /\ testIndex = 1
    /\ testKnown = nothingKnown
    /\ testList = <<>>
    /\ testRound = 0
    /\ frequencyOfScores = EmptyRecord
    /\ testReport = EmptyRecord
    /\ testPc = "yield"
    /\ SessionIdle
    /\ EvalIdle
    /\ RankIdle
    /\ SingleIdle
    /\ RangeIdle

\* the timer of the await fires: the game of the next solution begins
TestResume ==
    /\ testPc = "yield"
    /\ testKnown' = nothingKnown
    /\ testList' = testWords
    /\ testRound' = 0
    /\ testPc' = "game"
    /\ UNCHANGED <<testWords, testHard, testIndex, frequencyOfScores, testReport,
                   sessionVars, evalVars, rankVars, singleVars, rangeVars>>

\* countOccurrences(known.guessResult, "\n") + 1: every guess adds one line that
\* ends in a newline
TestScore(known) == Len(known.guessResult) + 1

\* if (!known.fixed.includes(".")) break
TestBreaks(known) == \A p \in 1..Len(known.fixed) : known.fixed[p] # Wildcard

\* the game is over: its score is tallied; after the last solution the loop
\* ends, the table is written and the process exits, else the next await
TestTally(known) ==
    /\ frequencyOfScores' =
          Put(frequencyOfScores, TestScore(known), Get(frequencyOfScores, TestScore(known), 0) + 1)
    /\ IF testIndex = Len(testWords)
       THEN /\ testPc' = "done"
            /\ testReport' = frequencyOfScores'
            /\ UNCHANGED testIndex
       ELSE /\ testPc' = "yield"
            /\ testIndex' = testIndex + 1
            /\ UNCHANGED testReport

\* the rest of an iteration of range(10) once known is updated
TestAfterGuess(known) ==
    /\ testKnown' = known
    /\ testRound' = testRound + 1
    /\ IF TestBreaks(known)
       THEN /\ UNCHANGED testList
            /\ TestTally(known)
       ELSE /\ testList' = filterWords(testList, known)
            /\ IF testRound + 1 = TestRounds
               THEN TestTally(known)
               ELSE /\ testPc' = "game"
                    /\ UNCHANGED <<testIndex, frequencyOfScores, testReport>>

TestGuess(guess) ==
    TestAfterGuess(updateKnown(guess, makeGuess(guess, testWords[testIndex]), testKnown))

\* one iteration of range(10) of the current game
TestRound ==
    /\ testPc = "game"
    /\ TestGuess(chooseWord(<<testList>>, IF testHard THEN testList ELSE testWords))
    /\ UNCHANGED <<testWords, testHard, sessionVars, evalVars, rankVars, singleVars, rangeVars>>

\* variant in which the handler runs wherever the loop is
SignalObservedAnywhere == testPc \in {"yield", "game"}

\* the SIGINT handler runs when the loop has given up control: at its await
SignalObserved == testPc = "yield"

\* the first SIGINT: the race is won, the table is written, the process exits
TestSigint ==
    /\ SignalObserved
    /\ testReport' = frequencyOfScores
    /\ testPc' = "done"
    /\ UNCHANGED <<testWords, testHard, testIndex, testKnown, testList, testRound,
                   frequencyOfScores, sessionVars, evalVars, rankVars, singleVars, rangeVars>>

NextTest == TestResume \/ TestRound \/ TestSigint

SpecTest == InitTest /\ [][NextTest]_vars


-----------------------------------------------------------------------------
(* gameModes.normal.run of the earlier program for one board: its evaluator *)
(* is called testGuess and its Known update makeGuess; the colours GREEN,   *)
(* YELLOW and GRAY are written PERFECT, CLOSE and WRONG as in the session   *)

\* testGuess: the same two passes as the later makeGuess
testGuess(guess, solution) == makeGuess(guess, solution)

\* the defaults of the third parameter of the Known update
SingleNothingKnown ==
    [fixed |-> [i \in Positions |-> Wildcard],
     good |-> EmptyRecord,
     bad |-> EmptyRecord,
     badPositions |-> EmptyRecord,
     guessResult |-> <<>>]

\* the Known update: as updateKnown, without a solved field
SingleUpdateKnown(guess, response, known) ==
    LET newGood == NewGood(guess, response)
        newBad == NewBad(guess, response)
        goodLetters == GoodLetters(known.good, newGood)
    IN  [fixed |-> KnownFixed(guess, response, known.fixed),
         good |-> goodLetters,
         bad |-> BadLetters(known.bad, newBad, goodLetters),
         badPositions |-> BadPositions(guess, response, known.badPositions),
         guessResult |-> Append(known.guessResult, GuessLine(guess, response))]

\* chooseWord(words, guessPool): the ranker over a single candidate list
SingleChooseWord(words, guessPool) == chooseWord(<<words>>, guessPool)

\* what requestGuess returns: any five letters, or the empty reply
SingleReplies(words) == Range(words) \cup {UnknownWord, <<>>}

InitSingle ==
    /\ singleAllWords \in Dictionaries
    /\ singleSolution \in Range(singleAllWords) \cup {UnknownWord, <<>>}
    /\ singleHardMode \in BOOLEAN
    /\ singleFreeMode \in BOOLEAN
    /\ singleRoundCount \in 1..MaxRounds
    \* feedback typed in is modelled for a short list
    /\ singleSolution # <<>> \/ singleAllWords \in TypedDictionaries
    /\ singleKnown = <<>>
    /\ singleWords = <<>>
    /\ singleI = 0
    /\ singlePc = "start"
    /\ singleOutcome = "NONE"
    /\ SessionIdle
    /\ EvalIdle
    /\ RankIdle
    /\ TestIdle
    /\ RangeIdle

\* the word given as argument is looked up; known and words are set up
SingleStart ==
    /\ singlePc = "start"
    /\ IF singleSolution # <<>> /\ ~InList(singleAllWords, singleSolution)
       THEN /\ singlePc' = "done"
            /\ singleOutcome' = "UNKNOWN_WORD"
            /\ UNCHANGED <<singleKnown, singleWords>>
       ELSE /\ singlePc' = "play"
            /\ singleOutcome' = "NONE"
            /\ singleKnown' = SingleNothingKnown
            /\ singleWords' = singleAllWords
    /\ UNCHANGED <<singleAllWords, singleSolution, singleHardMode, singleFreeMode,
                   singleRoundCount, singleI, sessionVars, evalVars, rankVars, testVars,
                   rangeVars>>

\* hardMode || i >= roundCount - 1 ? words : allWords
SingleGuessPool(hard, i, rounds, words, dictionary) ==
    IF hard \/ i >= rounds - 1 THEN words ELSE dictionary

\* if (!known.fixed.includes('.')) break
SingleBreaks(known) == \A p \in 1..Len(known.fixed) : known.fixed[p] # Wildcard

\* the rest of an iteration once known is updated: the loop is left when fixed
\* has no wildcard (the score is written, exit 0); the process exits when no
\* word is left; else the next iteration
SingleAfterGuess(known, remaining) ==
    /\ singleKnown' = known
    /\ IF SingleBreaks(known)
       THEN /\ singlePc' = "done"
            /\ singleOutcome' = "WON"
            /\ UNCHANGED <<singleWords, singleI>>
       ELSE /\ singleWords' = remaining
            /\ IF remaining = <<>>
               THEN /\ singlePc' = "done"
                    /\ singleOutcome' = "CONTRADICTION"
                    /\ UNCHANGED singleI
               ELSE /\ singlePc' = "play"
                    /\ singleOutcome' = "NONE"
                    /\ singleI' = singleI + 1

SingleApply(known) == SingleAfterGuess(known, filterWords(singleWords, known))

SingleGuess(reply) ==
    IF reply # <<>> THEN reply
    ELSE SingleChooseWord(singleWords,
                          SingleGuessPool(singleHardMode, singleI, singleRoundCount,
                                          singleWords, singleAllWords))

SingleResponse(guess, typed) ==
    IF singleSolution # <<>> THEN testGuess(guess, singleSolution) ELSE typed

SingleTurn(guess, typed) ==
    SingleApply(SingleUpdateKnown(guess, SingleResponse(guess, typed), singleKnown))

\* one iteration of range(Infinity); the loop has no end of its own, so the
\* model stops following it after MaxSingleRounds iterations, and after
\* MaxTypedRounds when the feedback is typed in
SingleRound ==
    /\ singlePc = "play"
    /\ singleI < MaxSingleRounds
    /\ singleSolution # <<>> \/ singleI < MaxTypedRounds
    /\ \E reply \in IF singleFreeMode THEN SingleReplies(singleAllWords) ELSE {<<>>} :
         \E typed \in IF singleSolution # <<>> THEN {NoResponse} ELSE Responses :
            SingleTurn(SingleGuess(reply), typed)
    /\ UNCHANGED <<singleAllWords, singleSolution, singleHardMode, singleFreeMode,
                   singleRoundCount, sessionVars, evalVars, rankVars, testVars,
                   rangeVars>>

NextSingle == SingleStart \/ SingleRound

SpecSingle == InitSingle /\ [][NextSingle]_vars

-----------------------------------------------------------------------------
(* range(n): for (let i = 0; i < n; i += step) yield i, as written in each  *)
(* of the three programs, consumed until it returns                         *)

\* i++ of the earlier JavaScript program
RangeStepJs == 1

\* i += 0 of the earlier TypeScript program
RangeStepTs == 0

\* i += 1 of the later program
RangeStepLater == 1

RangePrograms == {"part_000.js", "part_000.ts", "part_001"}

\* what the loop adds to i after a yield
RangeStep(program) ==
    CASE program = "part_000.js" -> RangeStepJs
      [] program = "part_000.ts" -> RangeStepTs
      [] program = "part_001" -> RangeStepLater

InitRange ==
    /\ rangeProgram \in RangePrograms
    /\ rangeN \in 0..MaxRangeLength
    /\ rangeI = 0
    /\ rangeYielded = <<>>
    /\ rangePc = "loop"
    /\ SessionIdle
    /\ EvalIdle
    /\ RankIdle
    /\ TestIdle
    /\ SingleIdle

\* i < n holds: i is yielded, and when the consumer asks again the step is added
RangeYield ==
    /\ rangePc = "loop"
    /\ rangeI < rangeN
    /\ Len(rangeYielded) < MaxYields
    /\ rangeYielded' = Append(rangeYielded, rangeI)
    /\ rangeI' = rangeI + RangeStep(rangeProgram)
    /\ UNCHANGED <<rangeProgram, rangeN, rangePc, sessionVars, evalVars, rankVars,
                   testVars, singleVars>>

\* i < n fails: the generator returns and the consumer's loop ends
RangeReturn ==
    /\ rangePc = "loop"
    /\ ~(rangeI < rangeN)
    /\ rangePc' = "done"
    /\ UNCHANGED <<rangeProgram, rangeN, rangeI, rangeYielded, sessionVars, evalVars,
                   rankVars, testVars, singleVars>>

NextRange == RangeYield \/ RangeReturn

SpecRange == InitRange /\ [][NextRange]_vars

-----------------------------------------------------------------------------
(* Properties of the session *)

\* the round loop has been entered
Playing == pc \in {"play", "done"} /\ outcome # "UNKNOWN_WORD"

\* the number of positions of a result that credit the letter
Credits(guess, result, letter) ==
    Cardinality({i \in 1..Len(result) :
                    At(guess, i) = letter /\ result[i] \in {"PERFECT", "CLOSE"}})

\* C1: in simulation mode the candidate list of every unsolved board contains
\* the board's solution after every round, whatever the guesses were, and the
\* session never ends in the contradiction exit.
C1_SolutionStaysCandidate ==
    (hasSolutions /\ Playing) =>
        /\ outcome # "CONTRADICTION"
        /\ \A i \in Threads :
              ~threadKnown[i].solved => InList(threadWords[i], solutions[i])

\* after two rounds a board is unsolved and its list has shrunk around its solution
C1_Witness ==
    /\ hasSolutions /\ pc = "play" /\ roundNumber >= 2
    /\ \E i \in Threads :
          /\ ~threadKnown[i].solved
          /\ Len(threadWords[i]) < Len(allWords)
          /\ InList(threadWords[i], solutions[i])

\* C5: a board's new candidate list is its old list restricted, in the same
\* order, to the words that match the fixed pattern position by position, have
\* at least the good count of every good letter, fewer than the bad bound of
\* every bad letter, and no letter at a position listed for it; the process
\* exits with the contradiction when that restriction is empty.
MatchesFixed(word, fixed) ==
    \A p \in Positions : fixed[p] = Wildcard \/ word[p] = fixed[p]

FourConditions(word, known) ==
    /\ MatchesFixed(word, known.fixed)
    /\ \A letter \in DOMAIN known.good :
          countOccurrences(word, letter) >= known.good[letter]
    /\ \A letter \in DOMAIN known.bad :
          countOccurrences(word, letter) < known.bad[letter]
    /\ \A letter \in DOMAIN known.badPositions :
          \A p \in known.badPositions[letter] : word[p] # letter

Restricted(words, known) == SelectSeq(words, LAMBDA word : FourConditions(word, known))

C5_FilterKeepsExactly ==
    [][pc = "play" =>
          /\ pc' = "play" =>
                \A i \in Threads :
                    threadWords'[i] =
                        IF threadKnown'[i].solved THEN <<>>
                        ELSE Restricted(threadWords[i], threadKnown'[i])
          /\ outcome' = "CONTRADICTION" <=>
                /\ ~AllSolved(threadKnown')
                /\ \E i \in Threads :
                      /\ ~threadKnown'[i].solved
                      /\ Restricted(threadWords[i], threadKnown'[i]) = <<>>
       ]_vars

\* with bad[e] = 2 a word with one e is kept and a word with two was dropped
C5_Witness ==
    /\ pc = "play"
    /\ \E i \in Threads :
          /\ "e" \in DOMAIN threadKnown[i].bad
          /\ threadKnown[i].bad["e"] = 2
          /\ \E k \in 1..Len(threadWords[i]) :
                countOccurrences(threadWords[i][k], "e") = 1
          /\ \E k \in 1..Len(allWords) :
                /\ countOccurrences(allWords[k], "e") = 2
                /\ ~InList(threadWords[i], allWords[k])

\* C6: over every update of a board, no good count decreases and no confirmed
\* position of fixed goes back to the wildcard.
C6_GoodAndFixedKept ==
    [][pc = "play" =>
          \A i \in Threads :
              /\ \A letter \in DOMAIN threadKnown[i].good :
                    /\ letter \in DOMAIN threadKnown'[i].good
                    /\ threadKnown'[i].good[letter] >= threadKnown[i].good[letter]
              /\ \A p \in Positions :
                    threadKnown[i].fixed[p] # Wildcard
                        => threadKnown'[i].fixed[p] # Wildcard
       ]_vars

\* a position confirmed by the first guess was not PERFECT in the second, and a
\* letter credited twice by the first guess was credited less by the second
C6_Witness ==
    Playing /\ \E i \in Threads :
        LET lines == threadKnown[i].guessResult
        IN  /\ Len(lines) >= 2
            /\ \E p \in Positions :
                  /\ lines[1].squares[p] = "green"
                  /\ lines[2].squares[p] # "green"
                  /\ threadKnown[i].fixed[p] = lines[1].word[p]
            /\ \E letter \in DOMAIN threadKnown[i].good :
                  /\ threadKnown[i].good[letter] = 2
                  /\ Cardinality({p \in Positions :
                        lines[2].word[p] = letter /\ lines[2].squares[p] # "red"}) < 2

\* the letters the last line of a board's history marks WRONG
LastWrong(known) ==
    LET line == known.guessResult[Len(known.guessResult)]
    IN  {line.word[p] : p \in {q \in Positions : line.squares[q] = "red"}}

Updated(i) ==
    Len(threadKnown'[i].guessResult) = Len(threadKnown[i].guessResult) + 1

\* C7 as stated: every letter that has a bad bound has bad = good + 1 after
\* every update.
C7_BadIsGoodPlusOne ==
    Playing =>
        \A i \in Threads :
            \A letter \in DOMAIN threadKnown[i].bad :
                threadKnown[i].bad[letter] = Get(threadKnown[i].good, letter, 0) + 1

\* C7 as amended: an update sets bad = good + 1 for the letters it marks WRONG
\* and leaves the bound of every other letter as it was, also when the update
\* raises that letter's good count; so bad <= good + 1 for every letter.
C7_BadSetOnlyWhenWrong ==
    [][pc = "play" =>
          \A i \in Threads :
              Updated(i) =>
                  \A letter \in DOMAIN threadKnown'[i].bad :
                      /\ threadKnown'[i].bad[letter]
                            <= Get(threadKnown'[i].good, letter, 0) + 1
                      /\ IF letter \in LastWrong(threadKnown'[i])
                         THEN threadKnown'[i].bad[letter]
                                = Get(threadKnown'[i].good, letter, 0) + 1
                         ELSE /\ letter \in DOMAIN threadKnown[i].bad
                              /\ threadKnown'[i].bad[letter] = threadKnown[i].bad[letter]
       ]_vars

\* a later update raised a letter's good count and its bad bound stayed behind
C7_Witness ==
    Playing /\ \E i \in Threads :
        /\ Len(threadKnown[i].guessResult) >= 2
        /\ \E letter \in DOMAIN threadKnown[i].bad :
              /\ letter \notin LastWrong(threadKnown[i])
              /\ threadKnown[i].bad[letter] < Get(threadKnown[i].good, letter, 0) + 1

\* C8: over every update of a board, no bad bound is removed and none
\* decreases, also for a letter that is marked WRONG again.
C8_BadNeverDecreases ==
    [][pc = "play" =>
          \A i \in Threads :
              \A letter \in DOMAIN threadKnown[i].bad :
                  /\ letter \in DOMAIN threadKnown'[i].bad
                  /\ threadKnown'[i].bad[letter] >= threadKnown[i].bad[letter]
       ]_vars

\* a letter marked WRONG by the first guess is marked WRONG again by the second,
\* which credits it less often than its good count
C8_Witness ==
    Playing /\ \E i \in Threads :
        LET lines == threadKnown[i].guessResult
        IN  /\ Len(lines) = 2
            /\ \E letter \in LastWrong(threadKnown[i]) :
                  /\ \E p \in Positions :
                        lines[1].word[p] = letter /\ lines[1].squares[p] = "red"
                  /\ threadKnown[i].bad[letter] >= 2
                  /\ Cardinality({p \in Positions :
                        lines[2].word[p] = letter /\ lines[2].squares[p] # "red"})
                        < threadKnown[i].good[letter]

\* C9: the round loop plays at most roundCount rounds and goes on only while
\* rounds are left; it ends WON, LOST or with the contradiction; WON exactly when
\* every board is solved, LOST only when the budget is used up.
C9_RoundLoopEnds ==
    Playing =>
        /\ roundNumber <= roundCount
        /\ pc = "play" => roundNumber < roundCount
        /\ pc = "done" =>
              /\ outcome \in {"WON", "LOST", "CONTRADICTION"}
              /\ outcome = "WON" <=> AllSolved(threadKnown)
              /\ outcome = "LOST" => roundNumber = roundCount
              /\ roundNumber >= 1

\* the budget ran out with one of two boards solved
C9_Witness ==
    /\ pc = "done" /\ outcome = "LOST" /\ roundNumber = roundCount
    /\ threadCount = 2
    /\ \E i, j \in Threads : threadKnown[i].solved /\ ~threadKnown[j].solved

\* C10: every board that is unsolved has one line of history per round played,
\* a solved board has no more than that, and line k holds the same guess on
\* every board that has a line k.
C10_SameGuessOnEveryBoard ==
    Playing =>
        /\ \A i \in Threads :
              /\ Len(threadKnown[i].guessResult) <= roundNumber
              /\ ~threadKnown[i].solved
                    => Len(threadKnown[i].guessResult) = roundNumber
        /\ \A i, j \in Threads :
              \A k \in 1..Len(threadKnown[i].guessResult) :
                  k <= Len(threadKnown[j].guessResult) =>
                      threadKnown[i].guessResult[k].word
                          = threadKnown[j].guessResult[k].word

\* two boards with different constraints and candidates after two shared guesses
C10_Witness ==
    /\ pc = "play" /\ threadCount = 2 /\ roundNumber = 2
    /\ ~threadKnown[1].solved /\ ~threadKnown[2].solved
    /\ threadKnown[1].fixed # threadKnown[2].fixed
    /\ threadWords[1] # threadWords[2]

\* the lists of the boards that are not solved, one after the other
UnsolvedLists(known, words) ==
    Flat([i \in 1..Len(words) |-> IF known[i].solved THEN <<>> ELSE words[i]])

\* the round budget minus the rounds played is at most the number of boards
\* that are not solved
FewRoundsLeft ==
    roundCount - roundNumber <= Cardinality({i \in Threads : ~threadKnown[i].solved})

\* C11: when the ranker chooses the guess of a round, its pool is the lists of
\* the unsolved boards if --hard is set or the rounds left are at most the
\* unsolved boards, and the whole dictionary otherwise; in the first case the
\* guess is a word of some unsolved board's list.
C11_PoolNarrowsWhenHardOrLate ==
    [][(pc = "play" /\ (~freeMode \/ lastPool' # <<>>)) =>
          /\ lastPool' = IF hardMode \/ FewRoundsLeft
                         THEN UnsolvedLists(threadKnown, threadWords)
                         ELSE allWords
          /\ InList(lastPool', lastGuess')
          /\ (hardMode \/ FewRoundsLeft) =>
                \E i \in Threads :
                    ~threadKnown[i].solved /\ InList(threadWords[i], lastGuess')
       ]_vars

\* without --hard, the second round of two boards with three rounds chose from
\* the boards' lists, which were shorter than the dictionary
C11_Witness ==
    /\ pc = "play" /\ ~hardMode /\ ~freeMode
    /\ threadCount = 2 /\ roundCount = 3 /\ roundNumber = 2
    /\ lastPool # allWords
    /\ Range(lastPool) # Range(allWords)
    /\ InList(lastPool, lastGuess)

\* C17: when a round leaves some board unsolved and the filtered list of an
\* unsolved board is empty, the round ends the session with the contradiction
\* exit; after that exit no guess is chosen and no round is played.
C17_EmptyListAborts ==
    [][/\ outcome # "CONTRADICTION"
       /\ (/\ pc = "play"
           /\ ~AllSolved(threadKnown')
           /\ \E i \in Threads :
                 /\ ~threadKnown'[i].solved
                 /\ filterWords(threadWords[i], threadKnown'[i]) = <<>>)
          => (/\ pc' = "done"
              /\ outcome' = "CONTRADICTION"
              /\ roundNumber' = roundNumber + 1)
      ]_vars

\* the contradiction exit was taken while rounds were left
C17_Witness ==
    /\ pc = "done" /\ outcome = "CONTRADICTION"
    /\ roundNumber < roundCount
    /\ \E i \in Threads :
          /\ ~threadKnown[i].solved
          /\ filterWords(threadWords[i], threadKnown[i]) = <<>>

\* the sublists of a list, in the order of the list
RECURSIVE SubListsFrom(_, _)
SubListsFrom(list, i) ==
    IF i > Len(list) THEN {<<>>}
    ELSE LET rest == SubListsFrom(list, i + 1)
         IN  rest \cup {<<list[i]>> \o tail : tail \in rest}

ResultOf(line) ==
    [p \in 1..Len(line.squares) |->
        CASE line.squares[p] = "green" -> "PERFECT"
          [] line.squares[p] = "yellow" -> "CLOSE"
          [] line.squares[p] = "red" -> "WRONG"]

\* C22: a word typed in free mode is the guess of the round and no pool is
\* built for the ranker; after an empty reply, and outside free mode, the guess
\* is the ranker's word.  Either way every unsolved board is updated with that
\* guess and its own result (computed from its solution in simulation mode), and
\* its list is filtered with the new constraint state.
C22_TypedGuessBypassesRanker ==
    [][pc = "play" =>
          /\ lastReply' # <<>> =>
                (freeMode /\ lastGuess' = lastReply' /\ lastPool' = <<>>)
          /\ ~freeMode => lastReply' = <<>>
          /\ lastReply' = <<>> =>
                (lastPool' # <<>> /\ lastGuess' = chooseWord(threadWords, lastPool'))
          /\ \A i \in Threads :
                ~threadKnown[i].solved =>
                    LET line == threadKnown'[i].guessResult[Len(threadKnown'[i].guessResult)]
                    IN  /\ line.word = lastGuess'
                        /\ hasSolutions => ResultOf(line) = makeGuess(lastGuess', solutions[i])
                        /\ threadKnown'[i] = updateKnown(lastGuess', ResultOf(line), threadKnown[i])
                        /\ (pc' = "play" /\ ~threadKnown'[i].solved) =>
                              threadWords'[i] = filterWords(threadWords[i], threadKnown'[i])
       ]_vars

\* a typed word that is not the ranker's first choice was played on a board
\* that it did not solve
C22_Witness ==
    /\ pc = "play" /\ freeMode /\ hasSolutions /\ roundNumber = 1
    /\ lastReply # <<>> /\ lastGuess = lastReply /\ lastPool = <<>>
    /\ lastGuess # chooseWord(<<allWords>>, allWords)
    /\ \E i \in Threads :
          /\ ~threadKnown[i].solved
          /\ threadKnown[i].guessResult[1].word = lastReply
          /\ Len(threadWords[i]) < Len(allWords)

\* C23: when a solution given in simulation mode is not a dictionary word, the
\* first step of the session is the unknown-word exit: no board is set up, no
\* guess is chosen, no round is played, and nothing follows.
C23_UnknownWordExitsAtStart ==
    [][/\ outcome # "UNKNOWN_WORD"
       /\ (/\ pc = "start"
           /\ hasSolutions
           /\ \E i \in Threads : ~InList(allWords, solutions[i]))
          => (/\ pc' = "done"
              /\ outcome' = "UNKNOWN_WORD"
              /\ roundNumber' = 0
              /\ threadKnown' = <<>>
              /\ threadWords' = <<>>
              /\ lastGuess' = <<>>
              /\ lastPool' = <<>>)
       /\ pc' = "play" /\ hasSolutions => \A i \in Threads : InList(allWords, solutions[i])
      ]_vars

\* two boards, the first solution in the dictionary and the second not: the
\* session ended before any round
C23_Witness ==
    /\ pc = "done" /\ outcome = "UNKNOWN_WORD"
    /\ threadCount = 2
    /\ InList(allWords, solutions[1])
    /\ ~InList(allWords, solutions[2])
    /\ roundNumber = 0 /\ threadKnown = <<>> /\ lastGuess = <<>>

crane == LongDictionary[1]

slate == LongDictionary[2]

spine == LongDictionary[4]

\* the session plays the longest dictionary from computed feedback, and the
\* ranker picks every guess
RankerPlays(sols) ==
    /\ allWords = LongDictionary
    /\ hasSolutions
    /\ ~freeMode
    /\ solutions = sols

\* C24: with the dictionary [crane, slate, shine, spine, swine], one board whose
\* solution is spine, computed feedback and guesses chosen by the ranker, a
\* session that has at least three rounds never plays more than three, is not
\* left waiting for a fourth, and ends only as WON with the board solved.
C24_SpineSolvedInThree ==
    (RankerPlays(<<spine>>) /\ threadCount = 1 /\ roundCount >= 3) =>
        /\ roundNumber <= 3
        /\ pc = "play" => roundNumber < 3
        /\ pc = "done" =>
              /\ outcome = "WON"
              /\ threadKnown[1].solved
              /\ threadKnown[1].fixed = spine

\* the session of the scenario, with the default budget, has ended as WON
C24_Witness ==
    /\ RankerPlays(<<spine>>) /\ threadCount = 1
    /\ roundCount = DefaultRounds(1)
    /\ pc = "done" /\ outcome = "WON"
    /\ roundNumber \in 2..3
    /\ threadKnown[1].solved
    /\ lastGuess = spine

\* C25: with the same dictionary, two boards whose solutions are crane and
\* slate, computed feedback, guesses chosen by the ranker and a budget of six
\* rounds, the session is never left with the budget used up, ends only as WON
\* with both boards solved, and every board that was still open in a round has
\* the round's one guess as its latest line.
C25_TwoBoardsWon ==
    ((RankerPlays(<<crane, slate>>) \/ RankerPlays(<<slate, crane>>))
      /\ threadCount = 2 /\ roundCount = 6) =>
        /\ pc = "play" => roundNumber < roundCount
        /\ pc = "done" =>
              /\ outcome = "WON"
              /\ \A i \in Threads :
                    /\ threadKnown[i].solved
                    /\ threadKnown[i].fixed = solutions[i]
        /\ pc \in {"play", "done"} =>
              \A i \in Threads :
                 \A k \in 1..Len(threadKnown[i].guessResult) :
                    \A j \in Threads :
                       k <= Len(threadKnown[j].guessResult) =>
                          threadKnown[i].guessResult[k].word
                              = threadKnown[j].guessResult[k].word

\* the two boards were solved in different rounds of a session that ended as WON
C25_Witness ==
    /\ RankerPlays(<<crane, slate>>) /\ threadCount = 2 /\ roundCount = 6
    /\ pc = "done" /\ outcome = "WON"
    /\ threadKnown[1].solved /\ threadKnown[2].solved
    /\ Len(threadKnown[1].guessResult) # Len(threadKnown[2].guessResult)
    /\ threadKnown[1].guessResult[1].word = threadKnown[2].guessResult[1].word

\* the words of the lines of a board's guess history
Guessed(known) == {known.guessResult[k].word : k \in 1..Len(known.guessResult)}

\* C27: with computed feedback, (a) once the lists are filtered no board that is
\* still open lists a word it has been given as a guess; (b) a round that does
\* not end the session by solving every board shortens the list of every open
\* board that listed the guess; (c) with one board, --hard, the ranker's guesses
\* and a budget of at least the dictionary's length, the rounds played and the
\* words still listed never exceed the dictionary's length together, and the
\* session ends only as WON.
C27_GuessLeavesTheList ==
    [][(hasSolutions /\ pc' \in {"play", "done"} /\ outcome' # "UNKNOWN_WORD") =>
          /\ \A i \in Threads :
                ~threadKnown'[i].solved =>
                    \A word \in Guessed(threadKnown'[i]) : ~InList(threadWords'[i], word)
          /\ (pc = "play" /\ ~AllSolved(threadKnown')) =>
                \A i \in Threads :
                   (~threadKnown[i].solved /\ InList(threadWords[i], lastGuess'))
                      => Len(threadWords'[i]) < Len(threadWords[i])
          /\ (threadCount = 1 /\ hardMode /\ ~freeMode /\ roundCount >= Len(allWords)) =>
                /\ roundNumber' <= Len(allWords)
                /\ pc' = "play" =>
                      /\ roundNumber' + Len(threadWords'[1]) <= Len(allWords)
                      /\ threadWords'[1] # <<>>
                /\ pc' = "done" => outcome' = "WON"
      ]_vars

\* a hard game of one board is in its second round: the first guess was a
\* dictionary word other than the solution, it left a position to be excluded,
\* and it is no longer listed
C27_Witness ==
    /\ hasSolutions /\ hardMode /\ ~freeMode /\ threadCount = 1
    /\ Len(allWords) >= 4 /\ roundCount >= Len(allWords)
    /\ pc = "play" /\ roundNumber = 1
    /\ ~threadKnown[1].solved
    /\ threadKnown[1].badPositions # EmptyRecord
    /\ InList(allWords, lastGuess)
    /\ ~InList(threadWords[1], lastGuess)
    /\ threadWords[1] # <<>>

\* C28: with computed feedback a board's Known never contradicts its solution:
\* no good count exceeds the letter's occurrences in the solution, every bad
\* bound is the letter's occurrences in the solution plus one (so it is above
\* the good count), and every position of fixed that is not the wildcard holds
\* the solution's letter.
C28_KnownAgreesWithSolution ==
    (hasSolutions /\ Playing) =>
        \A i \in Threads :
            /\ \A letter \in DOMAIN threadKnown[i].good :
                  threadKnown[i].good[letter] <= countOccurrences(solutions[i], letter)
            /\ \A letter \in DOMAIN threadKnown[i].bad :
                  /\ threadKnown[i].bad[letter] = countOccurrences(solutions[i], letter) + 1
                  /\ Get(threadKnown[i].good, letter, 0) < threadKnown[i].bad[letter]
            /\ \A p \in Positions :
                  threadKnown[i].fixed[p] # Wildcard
                      => threadKnown[i].fixed[p] = solutions[i][p]

\* after two guesses a board knows a letter of which one copy was credited and
\* another was not, and a position, and is not solved
C28_Witness ==
    /\ hasSolutions /\ Playing
    /\ \E i \in Threads :
          /\ ~threadKnown[i].solved
          /\ Len(threadKnown[i].guessResult) >= 2
          /\ \E p \in Positions : threadKnown[i].fixed[p] # Wildcard
          /\ \E letter \in DOMAIN threadKnown[i].bad :
                /\ Get(threadKnown[i].good, letter, 0) >= 1
                /\ threadKnown[i].bad[letter] = Get(threadKnown[i].good, letter, 0) + 1

\* C29: in every round played while a board is already solved, that board's
\* Known (fixed, good, bad, badPositions, guess history, solved flag) stays as it
\* is, so the round's guess adds no line and no feedback to it; its list is
\* empty before and after the round; and the pool of a ranker's guess taken from
\* the lists holds the words of the open boards only.
C29_SolvedBoardIsLeftAlone ==
    [][pc = "play" =>
          /\ \A i \in Threads :
                threadKnown[i].solved =>
                    /\ threadKnown'[i] = threadKnown[i]
                    /\ threadWords[i] = <<>>
                    /\ threadWords'[i] = <<>>
          /\ (lastReply' = <<>> /\ lastPool' # allWords) =>
                /\ lastPool' = UnsolvedLists(threadKnown, threadWords)
                /\ \A word \in Range(lastPool') :
                      \E i \in Threads :
                         ~threadKnown[i].solved /\ InList(threadWords[i], word)
      ]_vars

\* two boards: the first was solved in an earlier round than the latest one, and
\* the second has a longer history
C29_Witness ==
    /\ Playing /\ threadCount = 2
    /\ threadKnown[1].solved
    /\ roundNumber > Len(threadKnown[1].guessResult)
    /\ Len(threadKnown[2].guessResult) = roundNumber
    /\ threadWords[1] = <<>>
    /\ lastPool # <<>> /\ lastPool # allWords

-----------------------------------------------------------------------------
(* Properties of the feedback evaluator *)

EvalDone == evalPc = "done"

\* C2: the result has five entries; for every letter the positions credited
\* with it (PERFECT or CLOSE) are no more than its occurrences in the solution;
\* a position is PERFECT exactly when the guess holds the solution's letter.
C2_CreditsBounded ==
    EvalDone =>
        /\ Len(evalResult) = WordLength
        /\ \A letter \in Range(evalGuess) \cup Range(evalSolution) :
              Credits(evalGuess, evalResult, letter)
                  <= countOccurrences(evalSolution, letter)
        /\ \A i \in Positions :
              evalResult[i] = "PERFECT" <=> evalGuess[i] = evalSolution[i]

\* a letter guessed three times, in the solution once: one copy is credited
C2_Witness ==
    /\ EvalDone
    /\ \E letter \in EvalLetters :
          /\ countOccurrences(evalGuess, letter) = 3
          /\ countOccurrences(evalSolution, letter) = 1
          /\ Credits(evalGuess, evalResult, letter) = 1
          /\ \E i \in Positions : evalGuess[i] = letter /\ evalResult[i] = "WRONG"

\* C3: of two copies of a letter that are not PERFECT, the right one is CLOSE
\* only if the left one is.
C3_LeftmostFirst ==
    EvalDone =>
        \A i, j \in Positions :
            (/\ i < j
             /\ evalGuess[i] = evalGuess[j]
             /\ evalResult[i] # "PERFECT"
             /\ evalResult[j] # "PERFECT"
             /\ evalResult[j] = "CLOSE") => evalResult[i] = "CLOSE"

\* a CLOSE copy followed by a WRONG copy of the same letter
C3_Witness ==
    /\ EvalDone
    /\ \E i, j \in Positions :
          /\ i < j
          /\ evalGuess[i] = evalGuess[j]
          /\ evalResult[i] = "CLOSE"
          /\ evalResult[j] = "WRONG"

\* C4 as stated: for every letter the positions credited with it are exactly
\* its occurrences in the solution.
C4_CreditsEqualSolutionCount ==
    EvalDone =>
        \A letter \in Range(evalGuess) \cup Range(evalSolution) :
            Credits(evalGuess, evalResult, letter)
                = countOccurrences(evalSolution, letter)

Min(a, b) == IF a < b THEN a ELSE b

\* C4 as amended: for every letter the positions credited with it are the
\* smaller of its occurrences in the guess and its occurrences in the solution.
C4_CreditsEqualSmallerCount ==
    EvalDone =>
        \A letter \in Range(evalGuess) \cup Range(evalSolution) :
            Credits(evalGuess, evalResult, letter)
                = Min(countOccurrences(evalGuess, letter),
                      countOccurrences(evalSolution, letter))

\* the solution holds a letter more often than the guess does
C4_Witness ==
    /\ EvalDone
    /\ \E letter \in EvalLetters :
          /\ countOccurrences(evalGuess, letter) = 1
          /\ countOccurrences(evalSolution, letter) = 3
          /\ Credits(evalGuess, evalResult, letter) = 1

-----------------------------------------------------------------------------
(* Properties of the word ranker *)

RankDone == rankPc = "done"

\* the positions of the pool whose word has the highest total
BestPositions ==
    {k \in 1..Len(rankPool) : \A j \in 1..Len(rankPool) : rankTotals[j] <= rankTotals[k]}

\* C12 as stated: the ranker returns the earliest pool word that has the
\* highest total.
C12_EarliestBestWins ==
    RankDone =>
        \E k \in BestPositions :
            /\ \A j \in BestPositions : k <= j
            /\ rankChoice = rankPool[k]

\* C12 as amended: the ranker keeps the current best only while it scores
\* strictly higher than the next word, so it returns the latest pool word that
\* has the highest total.
C12_LatestBestWins ==
    RankDone =>
        \E k \in BestPositions :
            /\ \A j \in BestPositions : j <= k
            /\ rankChoice = rankPool[k]

\* two different pool words share the highest total and the later one is chosen
C12_Witness ==
    /\ RankDone
    /\ \E j, k \in BestPositions :
          /\ j < k
          /\ rankPool[j] # rankPool[k]
          /\ rankChoice = rankPool[k]
          /\ rankTotals[k] > 0

\* the letters of a word
LettersOf(word) == {word[p] : p \in 1..Len(word)}

\* the sum of a function over a finite set
RECURSIVE SumOver(_, _)
SumOver(set, f) ==
    IF set = {} THEN 0
    ELSE LET x == CHOOSE y \in set : TRUE
         IN  f[x] + SumOver(set \ {x}, f)

\* what a letter of a word adds to the word's base sum under a table: the entry
\* for the number of times the word holds the letter, nothing when the letter
\* is not in the table or the number is beyond the table
Contribution(word, table, letter) ==
    LET count == countOccurrences(word, letter)
    IN  IF letter \in DOMAIN table /\ count <= TableSlots THEN table[letter][count] ELSE 0

BaseSum(word, table) ==
    SumOver(LettersOf(word), [letter \in LettersOf(word) |-> Contribution(word, table, letter)])

\* C13: on a board, a pool word that is not in the board's list is worth its
\* base sum b, a pool word that is in the list 1.1 * b + 1 (values are kept
\* times ten); so a word of the list is worth more than every word outside it
\* whose base sum is equal or lower.
C13_CandidateBonus ==
    RankDone =>
        \A i \in 1..Len(rankWords) :
            /\ \A k \in 1..Len(rankPool) :
                  rankValues[k][i] =
                      IF InList(rankWords[i], rankPool[k])
                      THEN 11 * BaseSum(rankPool[k], rankLetters[i]) + 10
                      ELSE 10 * BaseSum(rankPool[k], rankLetters[i])
            /\ \A j, k \in 1..Len(rankPool) :
                  (/\ InList(rankWords[i], rankPool[k])
                   /\ ~InList(rankWords[i], rankPool[j])
                   /\ BaseSum(rankPool[j], rankLetters[i])
                         <= BaseSum(rankPool[k], rankLetters[i]))
                      => rankValues[k][i] > rankValues[j][i]

\* a word of the list and a word outside it have the same positive base sum,
\* and the word of the list is worth more
C13_Witness ==
    /\ RankDone
    /\ \E i \in 1..Len(rankWords) :
          \E j, k \in 1..Len(rankPool) :
              /\ InList(rankWords[i], rankPool[k])
              /\ ~InList(rankWords[i], rankPool[j])
              /\ BaseSum(rankPool[k], rankLetters[i]) > 0
              /\ BaseSum(rankPool[j], rankLetters[i]) = BaseSum(rankPool[k], rankLetters[i])
              /\ rankValues[k][i] > rankValues[j][i]

\* the value of a pool word on a board without the candidate bonus, times ten
BaseOfValue(k, i) ==
    IF InList(rankWords[i], rankPool[k])
    THEN (rankValues[k][i] - 10) \div 11
    ELSE rankValues[k][i] \div 10

\* a letter that the word holds more often than the table has slots
Overflowing(word) == {letter \in LettersOf(word) : countOccurrences(word, letter) > TableSlots}

\* C14 as stated: a letter that the word holds more than four times adds the
\* entry of the last slot of the table, and a letter that is not in the table
\* adds nothing.
C14_ClampedToLastSlot ==
    RankDone =>
        \A i \in 1..Len(rankWords) : \A k \in 1..Len(rankPool) :
            \A letter \in Overflowing(rankPool[k]) :
                BaseOfValue(k, i) =
                    IF letter \in DOMAIN rankLetters[i]
                    THEN rankLetters[i][letter][TableSlots]
                    ELSE 0

\* C14 as amended: a letter that the word holds more than four times adds
\* nothing, whatever the table holds for it, and so does a letter that is not in
\* the table; a letter held one to four times adds the entry of that slot.
C14_BeyondTableScoresNothing ==
    RankDone =>
        \A i \in 1..Len(rankWords) : \A k \in 1..Len(rankPool) :
            /\ Overflowing(rankPool[k]) # {} => BaseOfValue(k, i) = 0
            /\ LettersOf(rankPool[k]) \cap DOMAIN rankLetters[i] = {} => BaseOfValue(k, i) = 0
            /\ BaseOfValue(k, i) =
                  SumOver(LettersOf(rankPool[k]) \ Overflowing(rankPool[k]),
                          [letter \in LettersOf(rankPool[k]) |->
                              IF letter \in DOMAIN rankLetters[i]
                              THEN rankLetters[i][letter][countOccurrences(rankPool[k], letter)]
                              ELSE 0])

\* a word of five equal letters is scored on a board whose table has a
\* positive last slot for that letter, and its base sum is 0
C14_Witness ==
    /\ RankDone
    /\ \E i \in 1..Len(rankWords) : \E k \in 1..Len(rankPool) :
          \E letter \in Overflowing(rankPool[k]) :
              /\ letter \in DOMAIN rankLetters[i]
              /\ rankLetters[i][letter][TableSlots] > 0
              /\ InList(rankWords[i], rankPool[k])
              /\ rankValues[k][i] = 10

\* the number of words of a list that hold the letter at least n times
WordsWithAtLeast(list, letter, n) ==
    Cardinality({k \in 1..Len(list) : countOccurrences(list[k], letter) >= n})

\* the letters that occur in some word of a list
LettersIn(list) == UNION {LettersOf(list[k]) : k \in 1..Len(list)}

\* C16: the table of a list of N words has the letters of its words as keys
\* and four entries per letter; the entry of slot s is the smaller of c and
\* N - c, where c is the number of words with at least s copies of the letter,
\* and c is replaced exactly when 2c > N; so every entry is at most N div 2 and
\* a letter held by every word has 0 in the first slot.
C16_TableFoldsAtHalf ==
    RankDone =>
        \A i \in 1..Len(rankWords) :
            LET N == Len(rankWords[i])
                table == rankLetters[i]
            IN  /\ DOMAIN table = LettersIn(rankWords[i])
                /\ \A letter \in DOMAIN table :
                      /\ DOMAIN table[letter] = 1..TableSlots
                      /\ \A slot \in 1..TableSlots :
                            LET c == WordsWithAtLeast(rankWords[i], letter, slot)
                            IN  /\ table[letter][slot] = Min(c, N - c)
                                /\ table[letter][slot] = IF 2 * c > N THEN N - c ELSE c
                                /\ table[letter][slot] \in 0..(N \div 2)
                      /\ WordsWithAtLeast(rankWords[i], letter, 1) = N
                            => table[letter][1] = 0

\* a list of three words: a letter held by all three has 0 in its first slot and
\* a letter held by two of them has 1
C16_Witness ==
    /\ RankDone
    /\ \E i \in 1..Len(rankWords) :
          /\ Len(rankWords[i]) = 3
          /\ \E letter \in DOMAIN rankLetters[i] :
                /\ WordsWithAtLeast(rankWords[i], letter, 1) = 3
                /\ rankLetters[i][letter][1] = 0
          /\ \E letter \in DOMAIN rankLetters[i] :
                /\ WordsWithAtLeast(rankWords[i], letter, 1) = 2
                /\ rankLetters[i][letter][1] = 1

\* the value of a word on a board, from the board's list alone (times ten)
OwnBase(word, list) ==
    SumOver(LettersOf(word),
            [letter \in LettersOf(word) |->
                LET count == countOccurrences(word, letter)
                    c == WordsWithAtLeast(list, letter, count)
                IN  IF count <= TableSlots THEN Min(c, Len(list) - c) ELSE 0])

OwnValue(word, list) ==
    IF InList(list, word) THEN 11 * OwnBase(word, list) + 10 ELSE 10 * OwnBase(word, list)

RECURSIVE SumFrom(_, _)
SumFrom(list, i) == IF i > Len(list) THEN 0 ELSE list[i] + SumFrom(list, i + 1)

\* C15: the total a pool word is ranked by is the sum over the boards of its
\* value on each board, and the value on a board follows from that board's own
\* list and table; a solved board, whose list is empty, adds 0 to every word.
C15_TotalIsSumOverBoards ==
    RankDone =>
        \A k \in 1..Len(rankPool) :
            /\ rankTotals[k] = SumFrom(rankValues[k], 1)
            /\ rankTotals[k] =
                  SumFrom([i \in 1..Len(rankWords) |-> OwnValue(rankPool[k], rankWords[i])], 1)
            /\ \A i \in 1..Len(rankWords) :
                  /\ rankValues[k][i] = OwnValue(rankPool[k], rankWords[i])
                  /\ rankWords[i] = <<>> => rankValues[k][i] = 0

\* two boards with different lists: a pool word is in one list and not in the
\* other, is worth something different on each, and its total is the sum
C15_Witness ==
    /\ RankDone
    /\ Len(rankWords) = 2
    /\ rankWords[1] # <<>> /\ rankWords[2] # <<>>
    /\ rankLetters[1] # rankLetters[2]
    /\ \E k \in 1..Len(rankPool) :
          /\ InList(rankWords[1], rankPool[k])
          /\ ~InList(rankWords[2], rankPool[k])
          /\ rankValues[k][1] > 10
          /\ rankValues[k][2] > 0
          /\ rankValues[k][1] # rankValues[k][2]
          /\ rankTotals[k] = rankValues[k][1] + rankValues[k][2]

-----------------------------------------------------------------------------
(* Properties of the batch evaluation *)

\* the games a table counts
GamesIn(table) == SumOver(DOMAIN table, table)

\* C18: the table is written when the first SIGINT is handled or the last game
\* is tallied; a SIGINT is handled only at the await between two games, so the
\* table written then is the tally as it stands and counts exactly the games
\* played to their end before it, no game is left half-played, and nothing
\* happens after the table is written.
C18_ReportCountsWholeGames ==
    [][/\ testPc # "done"
       /\ testPc' = "done" =>
             /\ testReport' = frequencyOfScores'
             /\ IF testPc = "yield"
                THEN /\ frequencyOfScores' = frequencyOfScores
                     /\ GamesIn(testReport') = testIndex - 1
                     /\ UNCHANGED <<testKnown, testList, testRound>>
                ELSE /\ testIndex = Len(testWords)
                     /\ GamesIn(testReport') = Len(testWords)
                     /\ GamesIn(frequencyOfScores) = Len(testWords) - 1
       /\ (testPc = "game" /\ testPc' # "done") =>
             /\ testReport' = testReport
             /\ GamesIn(frequencyOfScores') = IF testPc' = "yield" THEN testIndex ELSE testIndex - 1
      ]_vars

\* a SIGINT was handled after some games and before others: the table counts
\* the games played, fewer than the dictionary has words
C18_Witness ==
    /\ testPc = "done"
    /\ testIndex > 1
    /\ GamesIn(testReport) = testIndex - 1
    /\ GamesIn(testReport) < Len(testWords) - 1
    /\ testRound >= 2

\* C19 as stated: a game is tallied under the number of guesses it made.
C19_KeyIsGuessCount ==
    [][\A key \in DOMAIN frequencyOfScores' :
          Get(frequencyOfScores, key, 0) # frequencyOfScores'[key]
              => key = Len(testKnown'.guessResult)
      ]_vars

\* C26: a game of the batch evaluation stops as solved only in a round whose
\* guess is the solution of the game.
C26_StopsOnlyOnSolution ==
    [][(testPc = "game" /\ TestBreaks(testKnown'))
          => testKnown'.guessResult[Len(testKnown'.guessResult)].word = testWords[testIndex]
      ]_vars

-----------------------------------------------------------------------------
(* Properties of the earlier program for one board *)

\* the iterations of the round loop so far: every one adds a line
SingleRoundsPlayed == Len(singleKnown.guessResult)

\* C30: the earlier program for one board never plays more rounds than the
\* budget given with --rounds.
C30_RoundsWithinBudget ==
    singlePc \in {"play", "done"} /\ singleOutcome # "UNKNOWN_WORD"
        => SingleRoundsPlayed <= singleRoundCount

-----------------------------------------------------------------------------
(* Properties of range *)

\* C31: in every program, what range(n) has yielded at any moment is 0, 1, ...
\* in order, no more than n values, and all n of them once it has returned.
C31_RangeCountsUpToN ==
    rangePc \in {"loop", "done"} =>
        /\ Len(rangeYielded) <= rangeN
        /\ \A k \in 1..Len(rangeYielded) : rangeYielded[k] = k - 1
        /\ rangePc = "done" => Len(rangeYielded) = rangeN

=============================================================================
